---- MODULE Spec2Model ----
(***************************************************************************)
(* bytepole2: a stack machine over one 256-byte memory that holds code,    *)
(* data and stack.  The model follows src/src/main.rs: Machine (mem, pc,   *)
(* stack, stdin, stdout), push/pop, dump, step, and the read-eval loop of  *)
(* main.                                                                   *)
(***************************************************************************)
EXTENDS Integers, Sequences, FiniteSets, TLC

VARIABLES
    mem,      \* Machine.mem: [0..255 -> 0..255]
    pc,       \* Machine.pc
    stack,    \* Machine.stack
    stdin,    \* the bytes not yet read from the input stream
    stdout,   \* the bytes written to the output stream so far
    ps,       \* where the caller is: "top", "run", "exit_ok", "exit_err", "panic", "api"
    result,   \* what the last step returned: "none", "continue", "halt", "ioerr", "panic"
    code,     \* the local `code` of the last step (-1 before the first)
    last,     \* history: the last operation: "none", "read", "build", "step", "push", "pop"
    pre,      \* history: mem, pc, stack and the streams before the last operation
    image,    \* history: the line the machine was built from
    wr,       \* history: per address, the byte last written there since loading (-1: none)
    mark,     \* history: the length of stdout when the machine was built
    stored,   \* history: address and value of the last `s` whose cell has not changed since
    test      \* the test caller: its plan and what it has done of it

vars ==
    <<mem, pc, stack, stdin, stdout, ps, result, code, last, pre, image, wr, mark, stored,
      test>>

(***************************************************************************)
(* Bytes and text                                                          *)
(***************************************************************************)
MemSize == 256

Byte == 0 .. (MemSize - 1)

\* The printable ASCII characters, from 0x20 to 0x7e.
Printable ==
    << " ", "!", "\"", "#", "$", "%", "&", "'", "(", ")", "*", "+", ",", "-", ".", "/",
       "0", "1", "2", "3", "4", "5", "6", "7", "8", "9", ":", ";", "<", "=", ">", "?",
       "@", "A", "B", "C", "D", "E", "F", "G", "H", "I", "J", "K", "L", "M", "N", "O",
       "P", "Q", "R", "S", "T", "U", "V", "W", "X", "Y", "Z", "[", "\\", "]", "^", "_",
       "grave", "a", "b", "c", "d", "e", "f", "g", "h", "i", "j", "k", "l", "m", "n", "o",
       "p", "q", "r", "s", "t", "u", "v", "w", "x", "y", "z", "{", "|", "}", "~" >>

\* b'c': the byte of an ASCII character.
Ch == [c \in {Printable[i] : i \in 1 .. Len(Printable)} |->
          31 + (CHOOSE i \in 1 .. Len(Printable) : Printable[i] = c)]

\* A text given as a tuple of one-character strings, as bytes.
Str(s) == [i \in 1 .. Len(s) |-> Ch[s[i]]]

NL == 10

ESC == 27

WrapAdd(a, b) == (a + b) % MemSize

WrapSub(a, b) == (a - b + MemSize) % MemSize

WrapMul(a, b) == (a * b) % MemSize

\* u8::wrapping_pow: square and multiply, every product wrapped.
RECURSIVE PowLoop(_, _, _)
PowLoop(base, acc, exp) ==
    IF exp % 2 = 1
    THEN IF exp = 1
         THEN WrapMul(acc, base)
         ELSE PowLoop(WrapMul(base, base), WrapMul(acc, base), exp \div 2)
    ELSE PowLoop(WrapMul(base, base), acc, exp \div 2)

WrapPow(a, b) == IF b = 0 THEN 1 ELSE PowLoop(a, 1, b)

\* Bit k of a byte.
Bit(a, k) == (a \div (2 ^ k)) % 2

BitOr(a, b) ==
    LET RECURSIVE Go(_)
        Go(k) == IF k = 8 THEN 0
                 ELSE (IF Bit(a, k) + Bit(b, k) > 0 THEN 2 ^ k ELSE 0) + Go(k + 1)
    IN Go(0)

BitAnd(a, b) ==
    LET RECURSIVE Go(_)
        Go(k) == IF k = 8 THEN 0
                 ELSE (IF Bit(a, k) + Bit(b, k) = 2 THEN 2 ^ k ELSE 0) + Go(k + 1)
    IN Go(0)

BitXor(a, b) ==
    LET RECURSIVE Go(_)
        Go(k) == IF k = 8 THEN 0
                 ELSE (IF Bit(a, k) + Bit(b, k) = 1 THEN 2 ^ k ELSE 0) + Go(k + 1)
    IN Go(0)

BitNot(a) == (MemSize - 1) - a

\* {} of a u8: decimal digits, no leading zero.
RECURSIVE Dec(_)
Dec(n) == IF n < 10 THEN <<Ch["0"] + n>> ELSE Append(Dec(n \div 10), Ch["0"] + (n % 10))

HexDigit(d) == IF d < 10 THEN Ch["0"] + d ELSE Ch["a"] + (d - 10)

\* {:x} of a number below 16, and {:02x} of a byte.
Hex1(n) == <<HexDigit(n)>>

Hex2(n) == <<HexDigit(n \div 16), HexDigit(n % 16)>>

RECURSIVE Concat(_)
Concat(ss) == IF ss = <<>> THEN <<>> ELSE Head(ss) \o Concat(Tail(ss))

(***************************************************************************)
(* The machine: a record [mem, pc, stack]                                  *)
(***************************************************************************)
\* Machine::default: zeroed memory, pc 0, stack pointer 0xff.
Default == [mem |-> [a \in Byte |-> 0], pc |-> 0, stack |-> MemSize - 1]

\* Machine::from: the bytes of src copied to the start of the default memory.
\* The slice mem[..len] does not exist for a longer src: the copy panics.
FromPanics(src) == Len(src) > MemSize

From(src) ==
    [Default EXCEPT !.mem = [a \in Byte |-> IF a < Len(src) THEN src[a + 1] ELSE 0]]

PushSaturating(m, val) ==
    [m EXCEPT !.mem[m.stack] = val, !.stack = IF m.stack = 0 THEN 0 ELSE m.stack - 1]

\* Machine::push: store at the stack pointer, then move it down (wrapping).
Push(m, val) ==
    [m EXCEPT !.mem[m.stack] = val, !.stack = (m.stack + MemSize - 1) % MemSize]

PopSaturating(m) == [m EXCEPT !.stack = IF m.stack = MemSize - 1 THEN m.stack ELSE m.stack + 1]

\* Machine::pop: move the stack pointer up (wrapping), then read there.
\* Pop is the machine afterwards, Top the value returned.
Pop(m) == [m EXCEPT !.stack = (m.stack + 1) % MemSize]

Top(m) == Pop(m).mem[Pop(m).stack]

\* The operands of a two-operand opcode: b is popped first, a second.
OperandB(m) == Top(m)

OperandA(m) == Top(Pop(m))

Pop2(m) == Pop(Pop(m))

(***************************************************************************)
(* Machine::dump: the text of the debug view                               *)
(***************************************************************************)
DumpHeader == Concat([j \in 1 .. 16 |-> Str(<<" ", "_">>) \o Hex1(j - 1)])

DumpCell(m, a) ==
    IF a = m.pc \/ a = m.stack
    THEN Str(<<" ">>) \o <<ESC>> \o Str(<<"[", "7", "m">>) \o Hex2(m.mem[a])
         \o <<ESC>> \o Str(<<"[", "m">>)
    ELSE Str(<<" ">>) \o Hex2(m.mem[a])

DumpChar(ch) == IF ch >= 32 /\ ch <= 126 THEN ch ELSE Ch["."]

DumpRow(m, i) ==
    Hex1(i) \o Str(<<"_", " ">>)
    \o Concat([j \in 1 .. 16 |-> DumpCell(m, 16 * i + (j - 1))])
    \o Str(<<" ", " ">>)
    \o [j \in 1 .. 16 |-> DumpChar(m.mem[16 * i + (j - 1)])]
    \o <<NL>>

Dump(m) ==
    Str(<<" ", " ", " ", "p", "c", ":", " ">>) \o Dec(m.pc) \o <<NL>>
    \o Str(<<"s", "t", "a", "c", "k", ":", " ">>) \o Dec(m.stack) \o <<NL>>
    \o Str(<<" ", " ", " ">>) \o DumpHeader \o <<NL>>
    \o Concat([i \in 1 .. 16 |-> DumpRow(m, i - 1)])

(***************************************************************************)
(* Reading: BufRead::read_line, str::trim, u8::from_str                    *)
(***************************************************************************)
\* The length of the first line of s: up to and including the first newline,
\* or all of s when it holds none.
LineLen(s) ==
    IF \E i \in 1 .. Len(s) : s[i] = NL
    THEN CHOOSE i \in 1 .. Len(s) : s[i] = NL /\ \A k \in 1 .. (i - 1) : s[k] # NL
    ELSE Len(s)

FirstLine(s) == SubSeq(s, 1, LineLen(s))

AfterLine(s) == SubSeq(s, LineLen(s) + 1, Len(s))

IsCont(b) == b >= 128 /\ b <= 191

\* read_line fills a String: the bytes of the line must be UTF-8.
RECURSIVE Utf8(_)
Utf8(s) ==
    IF s = <<>> THEN TRUE
    ELSE LET b == s[1]
             n == Len(s)
         IN  CASE b < 128 -> Utf8(Tail(s))
               [] b >= 194 /\ b <= 223 ->
                    n >= 2 /\ IsCont(s[2]) /\ Utf8(SubSeq(s, 3, n))
               [] b >= 224 /\ b <= 239 ->
                    /\ n >= 3 /\ IsCont(s[2]) /\ IsCont(s[3])
                    /\ (b = 224 => s[2] >= 160)
                    /\ (b = 237 => s[2] <= 159)
                    /\ Utf8(SubSeq(s, 4, n))
               [] b >= 240 /\ b <= 244 ->
                    /\ n >= 4 /\ IsCont(s[2]) /\ IsCont(s[3]) /\ IsCont(s[4])
                    /\ (b = 240 => s[2] >= 144)
                    /\ (b = 244 => s[2] <= 143)
                    /\ Utf8(SubSeq(s, 5, n))
               [] OTHER -> FALSE

\* The characters of Unicode's White_Space, as UTF-8.
WhiteSpace ==
    {<<b>> : b \in {9, 10, 11, 12, 13, 32}}
    \cup {<<194, 133>>, <<194, 160>>, <<225, 154, 128>>}
    \cup {<<226, 128, b>> : b \in (128 .. 138) \cup {168, 169, 175}}
    \cup {<<226, 129, 159>>, <<227, 128, 128>>}

StartsWith(s, w) == Len(s) >= Len(w) /\ SubSeq(s, 1, Len(w)) = w

EndsWith(s, w) == Len(s) >= Len(w) /\ SubSeq(s, Len(s) - Len(w) + 1, Len(s)) = w

RECURSIVE TrimStart(_)
TrimStart(s) ==
    IF \E w \in WhiteSpace : StartsWith(s, w)
    THEN LET w == CHOOSE w \in WhiteSpace : StartsWith(s, w)
         IN  TrimStart(SubSeq(s, Len(w) + 1, Len(s)))
    ELSE s

RECURSIVE TrimEnd(_)
TrimEnd(s) ==
    IF \E w \in WhiteSpace : EndsWith(s, w)
    THEN LET w == CHOOSE w \in WhiteSpace : EndsWith(s, w)
         IN  TrimEnd(SubSeq(s, 1, Len(s) - Len(w)))
    ELSE s

Trim(s) == TrimEnd(TrimStart(s))

IsDigit(b) == b >= Ch["0"] /\ b <= Ch["9"]

\* The digits of a decimal number, accumulated with u8's checked arithmetic:
\* -1 for a byte that is no digit or a value above 255.
RECURSIVE ParseDigits(_, _)
ParseDigits(s, acc) ==
    IF s = <<>> THEN acc
    ELSE IF ~IsDigit(s[1]) THEN -1
    ELSE LET n == acc * 10 + (s[1] - Ch["0"])
         IN  IF n >= MemSize THEN -1 ELSE ParseDigits(Tail(s), n)

\* str::parse::<u8>: an optional '+', then at least one digit; -1 for an error.
ParseU8(s) ==
    LET digits == IF s # <<>> /\ s[1] = Ch["+"] THEN Tail(s) ELSE s
    IN  IF digits = <<>> THEN -1 ELSE ParseDigits(digits, 0)

(***************************************************************************)
(* Machine::step                                                           *)
(*                                                                         *)
(* An arm of the match gives the machine it leaves and how it leaves:      *)
(* "fall" (out of the match, to the pc increment), "continue" and "halt"   *)
(* (an early return), "ioerr" (an Err through ?), "panic".                 *)
(***************************************************************************)
Fall(m) == [m |-> m, flow |-> "fall"]

Leave(m, flow) == [m |-> m, flow |-> flow]

FetchLoaded(m) == IF m.pc < Len(image) THEN image[m.pc + 1] ELSE 0

\* let code = self.mem[self.pc as usize];
Fetch(m) == m.mem[m.pc]

AdvanceSaturating(m) == [m EXCEPT !.pc = IF m.pc = MemSize - 1 THEN m.pc ELSE m.pc + 1]

\* self.pc = self.pc.wrapping_add(1);
Advance(m) == [m EXCEPT !.pc = (m.pc + 1) % MemSize]

ArmHaltAdvances(m) == Leave(Advance(m), "halt")

ArmHalt(m) == Leave(m, "halt")

ArmOtherSkips(m) == Fall(m)

\* _ => return Ok(Break(()))
ArmOther(m) == Leave(m, "halt")

ArmDigit(m, c) == Fall(Push(m, c - Ch["0"]))

ArmHexDigit(m, c) == Fall(Push(m, c - Ch["a"] + 10))

ArmCombineMasked(m) ==
    LET lo == Top(m)
        hi == Top(Pop(m))
    IN  Fall(Push(Pop2(m), BitOr((hi * 16) % MemSize, lo % 16)))

\* hi << 4 | lo
ArmCombine(m) ==
    LET lo == Top(m)
        hi == Top(Pop(m))
    IN  Fall(Push(Pop2(m), BitOr((hi * 16) % MemSize, lo)))

ArmSwapKept(m) ==
    LET b == Top(m)
        a == Top(Pop(m))
    IN  Fall(Push(Push(Pop2(m), a), b))

ArmSwap(m) ==
    LET b == Top(m)
        a == Top(Pop(m))
    IN  Fall(Push(Push(Pop2(m), b), a))

ArmDupOnce(m) == Fall(m)

ArmDup(m) ==
    LET a == Top(m)
    IN  Fall(Push(Push(Pop(m), a), a))

ArmDrop(m) == Fall(Pop(m))

ArmAdd(m) == Fall(Push(Pop2(m), WrapAdd(OperandA(m), OperandB(m))))

ArmSubSwapped(m) == Fall(Push(Pop2(m), WrapSub(OperandB(m), OperandA(m))))

ArmSub(m) == Fall(Push(Pop2(m), WrapSub(OperandA(m), OperandB(m))))

ArmMul(m) == Fall(Push(Pop2(m), WrapMul(OperandA(m), OperandB(m))))

ArmDivZero(m) ==
    IF OperandB(m) = 0 THEN Fall(Push(Pop2(m), 0))
    ELSE Fall(Push(Pop2(m), OperandA(m) \div OperandB(m)))

\* u8::wrapping_div and u8::wrapping_rem panic on a zero divisor, after both pops.
ArmDiv(m) ==
    IF OperandB(m) = 0 THEN Leave(Pop2(m), "panic")
    ELSE Fall(Push(Pop2(m), OperandA(m) \div OperandB(m)))

ArmRem(m) ==
    IF OperandB(m) = 0 THEN Leave(Pop2(m), "panic")
    ELSE Fall(Push(Pop2(m), OperandA(m) % OperandB(m)))

ArmPow(m) == Fall(Push(Pop2(m), WrapPow(OperandA(m), OperandB(m))))

ArmNot(m) == Fall(Push(Pop(m), IF Top(m) = 0 THEN 1 ELSE 0))

ArmEq(m) == Fall(Push(Pop2(m), IF OperandA(m) = OperandB(m) THEN 1 ELSE 0))

ArmLt(m) == Fall(Push(Pop2(m), IF OperandA(m) < OperandB(m) THEN 1 ELSE 0))

ArmGt(m) == Fall(Push(Pop2(m), IF OperandA(m) > OperandB(m) THEN 1 ELSE 0))

ArmBitNot(m) == Fall(Push(Pop(m), BitNot(Top(m))))

ArmBitOr(m) == Fall(Push(Pop2(m), BitOr(OperandA(m), OperandB(m))))

ArmBitAnd(m) == Fall(Push(Pop2(m), BitAnd(OperandA(m), OperandB(m))))

ArmBitXor(m) == Fall(Push(Pop2(m), BitXor(OperandA(m), OperandB(m))))

ArmGoto(m) ==
    LET addr == Top(m)
    IN  Leave([Pop(m) EXCEPT !.pc = addr], "continue")

ArmJumpFalls(m) ==
    LET addr == Top(m)
        cond == Top(Pop(m))
    IN  IF cond # 0 THEN Fall([Pop2(m) EXCEPT !.pc = addr])
        ELSE Fall(Pop2(m))

ArmJump(m) ==
    LET addr == Top(m)
        cond == Top(Pop(m))
    IN  IF cond # 0 THEN Leave([Pop2(m) EXCEPT !.pc = addr], "continue")
        ELSE Fall(Pop2(m))

ArmLoad(m) ==
    LET addr == Top(m)
        val == Pop(m).mem[addr]
    IN  Fall(Push(Pop(m), val))

ArmStoreSwapped(m) ==
    LET addr == Top(m)
        val == Top(Pop(m))
    IN  Fall([Pop2(m) EXCEPT !.mem[val] = addr])

ArmStore(m) ==
    LET addr == Top(m)
        val == Top(Pop(m))
    IN  Fall([Pop2(m) EXCEPT !.mem[addr] = val])

\* The opcodes that use the streams.
IoOps == {Ch["i"], Ch["o"], Ch[":"], Ch["'"], Ch["\""]}

\* The arms that touch only the machine.
Exec(m, c) ==
    CASE c = Ch["x"] -> ArmHalt(m)
      [] c >= Ch["0"] /\ c <= Ch["9"] -> ArmDigit(m, c)
      [] c >= Ch["a"] /\ c <= Ch["f"] -> ArmHexDigit(m, c)
      [] c = Ch["."] -> ArmCombine(m)
      [] c = Ch["@"] -> ArmSwap(m)
      [] c = Ch["("] -> ArmDup(m)
      [] c = Ch[")"] -> ArmDrop(m)
      [] c = Ch["+"] -> ArmAdd(m)
      [] c = Ch["-"] -> ArmSub(m)
      [] c = Ch["*"] -> ArmMul(m)
      [] c = Ch["/"] -> ArmDiv(m)
      [] c = Ch["%"] -> ArmRem(m)
      [] c = Ch["^"] -> ArmPow(m)
      [] c = Ch["!"] -> ArmNot(m)
      [] c = Ch["="] -> ArmEq(m)
      [] c = Ch["<"] -> ArmLt(m)
      [] c = Ch[">"] -> ArmGt(m)
      [] c = Ch["~"] -> ArmBitNot(m)
      [] c = Ch["|"] -> ArmBitOr(m)
      [] c = Ch["&"] -> ArmBitAnd(m)
      [] c = Ch["X"] -> ArmBitXor(m)
      [] c = Ch["g"] -> ArmGoto(m)
      [] c = Ch["j"] -> ArmJump(m)
      [] c = Ch["l"] -> ArmLoad(m)
      [] c = Ch["s"] -> ArmStore(m)
      [] OTHER -> ArmOther(m)

\* What the streams do during one step: "none" (every call succeeds), or the call
\* that fails: a "write", a "flush" or a "read".
Faults == {"none", "write", "flush", "read"}

Io(m, flow, sin, out) == [m |-> m, flow |-> flow, sin |-> sin, out |-> out]

Prompt == Str(<<">", " ">>)

ArmInputLenient(m, sin, fault) ==
    LET line == FirstLine(sin)
        n == ParseU8(Trim(line))
    IN  CASE fault = "write" -> Io(m, "ioerr", sin, <<>>)
          [] fault = "flush" -> Io(m, "ioerr", sin, Prompt)
          [] fault = "read" -> Io(m, "ioerr", sin, Prompt)
          [] ~Utf8(line) -> Io(m, "ioerr", AfterLine(sin), Prompt)
          [] n = -1 -> Io(Push(m, 0), "fall", AfterLine(sin), Prompt)
          [] OTHER -> Io(Push(m, n), "fall", AfterLine(sin), Prompt)

ArmInput(m, sin, fault) ==
    LET line == FirstLine(sin)
        n == ParseU8(Trim(line))
    IN  CASE fault = "write" -> Io(m, "ioerr", sin, <<>>)
          [] fault = "flush" -> Io(m, "ioerr", sin, Prompt)
          [] fault = "read" -> Io(m, "ioerr", sin, Prompt)
          [] ~Utf8(line) -> Io(m, "ioerr", AfterLine(sin), Prompt)
          [] n = -1 -> Io(m, "ioerr", AfterLine(sin), Prompt)
          [] OTHER -> Io(Push(m, n), "fall", AfterLine(sin), Prompt)

ArmOutputBare(m, sin, fault) ==
    LET a == Top(m)
    IN  IF fault = "write" THEN Io(Pop(m), "ioerr", sin, <<>>)
        ELSE Io(Pop(m), "fall", sin, Dec(a))

ArmOutput(m, sin, fault) ==
    LET a == Top(m)
    IN  IF fault = "write" THEN Io(Pop(m), "ioerr", sin, <<>>)
        ELSE Io(Pop(m), "fall", sin, Dec(a) \o <<NL>>)

ArmReadByte(m, sin, fault) ==
    IF fault = "read" \/ sin = <<>> THEN Io(m, "ioerr", sin, <<>>)
    ELSE Io(Push(m, Head(sin)), "fall", Tail(sin), <<>>)

ArmWriteByteKept(m, sin, fault) ==
    LET a == Top(m)
    IN  IF fault = "write" THEN Io(m, "ioerr", sin, <<>>)
        ELSE Io(Pop(m), "fall", sin, <<a>>)

ArmWriteByte(m, sin, fault) ==
    LET a == Top(m)
    IN  IF fault = "write" THEN Io(Pop(m), "ioerr", sin, <<>>)
        ELSE Io(Pop(m), "fall", sin, <<a>>)

ArmDumpPops(m, sin, fault) ==
    LET d == Dump(m)
    IN  IF fault = "write" THEN Io(m, "ioerr", sin, <<>>)
        ELSE Io(Pop(m), "fall", sin, d \o <<NL>>)

ArmDump(m, sin, fault) ==
    LET d == Dump(m)
    IN  IF fault = "write" THEN Io(m, "ioerr", sin, <<>>)
        ELSE Io(m, "fall", sin, d \o <<NL>>)

ExecIo(m, c, sin, fault) ==
    CASE c = Ch["i"] -> ArmInput(m, sin, fault)
      [] c = Ch["o"] -> ArmOutput(m, sin, fault)
      [] c = Ch[":"] -> ArmReadByte(m, sin, fault)
      [] c = Ch["'"] -> ArmWriteByte(m, sin, fault)
      [] c = Ch["\""] -> ArmDump(m, sin, fault)

\* The faults the streams can show during a step of opcode c.
FaultsOf(c) ==
    CASE c = Ch["i"] -> Faults
      [] c \in {Ch["o"], Ch["'"], Ch["\""]} -> {"none", "write"}
      [] c = Ch[":"] -> {"none", "read"}
      [] OTHER -> {"none"}

\* One call of step: the machine, the streams and the value returned.
StepOf(m, sin, fault) ==
    LET c == Fetch(m)
        r == IF c \in IoOps THEN ExecIo(m, c, sin, fault)
             ELSE Io(Exec(m, c).m, Exec(m, c).flow, sin, <<>>)
    IN  IF r.flow = "fall"
        THEN [m |-> Advance(r.m), res |-> "continue", sin |-> r.sin, out |-> r.out]
        ELSE [m |-> r.m, res |-> r.flow, sin |-> r.sin, out |-> r.out]

(***************************************************************************)
(* The state of the model                                                  *)
(***************************************************************************)
\* The machine held by the variables.
M == [mem |-> mem, pc |-> pc, stack |-> stack]

NoWrites == [a \in Byte |-> -1]

\* No store is remembered.
NoStore == [addr |-> -1, val |-> -1]

\* The store remembered after a step of opcode c from machine m to machine n.
Remembered(m, c, n) ==
    CASE c = Ch["s"] -> [addr |-> Top(m), val |-> Top(Pop(m))]
      [] stored # NoStore /\ n.mem[stored.addr] # m.mem[stored.addr] -> NoStore
      [] OTHER -> stored

\* The bytes an operation changed become the last written ones.
Written(old, new) == [a \in Byte |-> IF new[a] # old[a] THEN new[a] ELSE wr[a]]

\* The machine variables take the value m.
Becomes(m) ==
    /\ mem' = m.mem
    /\ pc' = m.pc
    /\ stack' = m.stack

\* The machine and the streams, as an operation finds them.
Before ==
    [mem |-> mem, pc |-> pc, stack |-> stack, sin |-> stdin, out |-> stdout, wr |-> wr,
     res |-> result, fault |-> "none", stored |-> stored]

\* The same, with the fault the streams show during the operation.
During(fault) == [Before EXCEPT !.fault = fault]

\* A new machine built from line replaces the one held.
Built(line) ==
    /\ Becomes(From(line))
    /\ result' = "none"
    /\ code' = -1
    /\ last' = "build"
    /\ pre' = Before
    /\ image' = line
    /\ wr' = NoWrites
    /\ mark' = Len(stdout')
    /\ stored' = NoStore

\* One call of step on the machine held, under a fault of the streams.
Stepped(fault) ==
    LET r == StepOf(M, stdin, fault)
    IN  /\ Becomes(r.m)
        /\ result' = r.res
        /\ code' = Fetch(M)
        /\ last' = "step"
        /\ pre' = During(fault)
        /\ wr' = Written(mem, r.m.mem)
        /\ stdin' = r.sin
        /\ stdout' = stdout \o r.out
        /\ stored' = Remembered(M, Fetch(M), r.m)
        /\ UNCHANGED <<image, mark>>

(***************************************************************************)
(* Inputs                                                                  *)
(***************************************************************************)
\* How far from 0 and from 255 the operand bytes of the tests reach.
Edge == 3

TestBytes ==
    (0 .. Edge) \cup ((MemSize - 1 - Edge) .. (MemSize - 1)) \cup {10, 16, 64, 100, 128, 250}

BinaryOps == {"+", "-", "*", "/", "%", "^", "=", "<", ">", "|", "&", "X", ".", "@", "j", "s"}

UnaryOps == {"!", "~", "(", ")", "g", "l", "'"}

\* The decimal lines given to `i`.
NumberLines ==
    { Str(<<"7">>) \o <<NL>>, Str(<<"2", "5", "5">>) \o <<NL>>, Str(<<"2", "5", "6">>) \o <<NL>>,
      Str(<<" ", "1", "2", " ">>) \o <<NL>>, Str(<<"+", "5">>) \o <<NL>>,
      Str(<<"-", "1">>) \o <<NL>>, Str(<<"0", "0", "9">>) \o <<NL>>, Str(<<"q">>) \o <<NL>>,
      <<NL>>, <<>>, <<MemSize - 1, NL>>, <<194, 160>> \o Str(<<"3">>), Str(<<"4", "2">>),
      Str(<<"+">>) \o <<NL>>, Str(<<"-", "0">>) \o <<NL>>, Str(<<"1", "0", "0", "0">>) \o <<NL>>,
      Str(<<"1", " ", "2">>) \o <<NL>>, Str(<<"0">>) \o <<NL>>,
      Str(<<"0", "0", "0", "2", "5", "5">>) \o <<13, NL>> }

\* The documented programs.
Documented ==
    { Str(<<"1", "o">>), Str(<<"3", "4", "+", "o">>), Str(<<"0", "!", "o">>), Str(<<"x">>),
      Str(<<"q">>), Str(<<"1", "2", ".", "o">>), Str(<<"3", "5", ".", "+", "o">>) }

\* The sixteen digit opcodes.
HexChars == (Ch["0"] .. Ch["9"]) \cup (Ch["a"] .. Ch["f"])

\* A program line of n bytes x.
LongLine(n) == [i \in 1 .. n |-> Ch["x"]]

\* The input streams of main: program lines, each followed by what its run reads.
Inputs ==
    \* two operands read as raw bytes, a two-operand opcode, the result printed
    { Str(<<":", ":", op, "o">>) \o <<NL, a, b>> : op \in BinaryOps, a \in TestBytes, b \in TestBytes }
    \* one operand, a one-operand opcode, the result printed
    \cup { Str(<<":", op, "o">>) \o <<NL, a>> : op \in UnaryOps, a \in TestBytes }
    \* a byte stored over the next instruction and executed
    \cup { Str(<<":", "3", "s">>) \o <<NL, v>> : v \in Byte }
    \* a byte pushed to address 255 and executed there
    \cup { Str(<<":", "f", "f", ".", "g">>) \o <<NL, v>> : v \in Byte }
    \* store, then load of the same address
    \cup { Str(<<":", ":", "s", ":", "l", "o">>) \o <<NL, v, a, a>> : v \in TestBytes, a \in TestBytes }
    \* decimal input
    \cup { Str(<<"i", "o">>) \o <<NL>> \o l : l \in NumberLines }
    \* the documented programs, with and without the newline, alone and in a row
    \cup Documented
    \cup { d \o <<NL>> : d \in Documented }
    \cup { d \o <<NL>> \o e \o <<NL>> : d \in Documented, e \in Documented }
    \* the debug view, a raw byte written, the empty stream
    \cup { Str(<<"5", "\"", "o">>) \o <<NL>>, Str(<<"4", "1", ".", "'">>), <<>> }
    \* two hex digits combined
    \cup { <<h, l, Ch["."]>> : h \in HexChars, l \in HexChars }
    \* lines that fill the memory, and lines one byte longer
    \cup { LongLine(n) \o t : n \in {MemSize - 1, MemSize}, t \in {<<>>, <<NL>>} }

(***************************************************************************)
(* main: the read-eval loop                                                *)
(***************************************************************************)
MainPrompt == Str(<<">", ">", ">", " ">>)

TestIdle == UNCHANGED test

Ended(status, fault) ==
    /\ ps' = status
    /\ last' = "read"
    /\ pre' = During(fault)
    /\ UNCHANGED <<mem, pc, stack, result, code, image, wr, mark, stored>>

\* print!(">>> "); flush()?; read_line(&mut buf)?; Machine::from(&buf)
MainReadLine ==
    /\ ps = "top"
    /\ TestIdle
    /\ \E fault \in Faults :
          LET line == FirstLine(stdin)
          IN  CASE fault = "write" ->
                      Ended("panic", fault) /\ UNCHANGED <<stdin, stdout>>
                [] fault = "flush" ->
                      Ended("exit_err", fault) /\ stdout' = stdout \o MainPrompt /\ UNCHANGED stdin
                [] fault = "read" ->
                      Ended("exit_err", fault) /\ stdout' = stdout \o MainPrompt /\ UNCHANGED stdin
                [] fault = "none" ->
                      /\ stdout' = stdout \o MainPrompt
                      /\ stdin' = AfterLine(stdin)
                      /\ CASE ~Utf8(line) -> Ended("exit_err", fault)
                           [] line = <<>> -> Ended("exit_ok", fault)
                           [] FromPanics(line) -> Ended("panic", fault)
                           [] OTHER -> ps' = "run" /\ Built(line)

\* match m.step()? { Break(_) => break, _ => {} }
MainStep ==
    /\ ps = "run"
    /\ TestIdle
    /\ \E fault \in FaultsOf(Fetch(M)) :
          /\ Stepped(fault)
          /\ ps' = CASE result' = "continue" -> "run"
                     [] result' = "halt" -> "top"
                     [] result' = "ioerr" -> "exit_err"
                     [] result' = "panic" -> "panic"

\* main has no test caller.
NoTest == [plan |-> "none"]

Init ==
    /\ mem = Default.mem
    /\ pc = Default.pc
    /\ stack = Default.stack
    /\ stdin \in Inputs
    /\ stdout = <<>>
    /\ ps = "top"
    /\ result = "none"
    /\ code = -1
    /\ last = "none"
    /\ pre = [mem |-> Default.mem, pc |-> Default.pc, stack |-> Default.stack,
              sin |-> stdin, out |-> <<>>, wr |-> NoWrites, res |-> "none",
              fault |-> "none", stored |-> NoStore]
    /\ image = <<>>
    /\ wr = NoWrites
    /\ mark = 0
    /\ stored = NoStore
    /\ test = NoTest

Next == MainReadLine \/ MainStep

Spec == Init /\ [][Next]_vars

(***************************************************************************)
(* A test caller of Machine's public methods: push, pop and step on a      *)
(* machine over in-memory streams.  A plan is: build the machine from a    *)
(* line, pop `setup` times (moving the stack pointer up from 0xff), push   *)
(* `goal` values, call step up to `steps` times (at least once when that   *)
(* is not 0), pop `pops` times.                                            *)
(***************************************************************************)
\* The bounds of the plans.
MaxSetup == 2

MaxPushes == 3

MaxSteps == 2

\* The values of the short push sequences.
PushVals == {1, Ch["@"], MemSize - 1}

\* The k-th value of a long push sequence: 256 different values.
Fill(k) == (37 * k + 11) % MemSize

\* The opcodes stepped by the test caller, one per line.
StepOps ==
    {"@", "(", ")", "+", "-", "*", "^", "/", "%", ".", "x", "q", "A", "j", "g", "s", "l",
     "o", "i", ":", "\""}

Plan(line, setup, goal, fill, vals, steps, pops) ==
    [line |-> line, setup |-> setup, goal |-> goal, fill |-> fill, vals |-> vals,
     steps |-> steps, pops |-> pops]

Plans ==
    \* pushes, then as many pops
    { Plan(Str(<<"1", "o">>), k, n, FALSE, PushVals, 0, n) :
          k \in 0 .. MaxSetup, n \in 0 .. MaxPushes }
    \* as many pushes as the memory has cells, and one fewer
    \cup { Plan(Str(<<"1", "o">>), k, n, TRUE, {}, 0, n) :
          k \in 0 .. MaxSetup, n \in {MemSize - 1, MemSize} }
    \* two operands, steps of one opcode, the stack read back
    \cup { Plan(Str(<<op>>), 0, 2, FALSE, TestBytes, MaxSteps, 3) : op \in StepOps }
    \* steps on a halting program, nothing pushed or popped
    \cup { Plan(Str(<<op, "1", "o">>), 0, 0, FALSE, {}, MaxSteps, 0) : op \in {"x", "q"} }

\* The stream the test machine reads.
TestInput == Str(<<"7">>) \o <<NL, 65>>

Doing(field, value) == test' = [test EXCEPT ![field] = value]

\* m.pop()
ApiPop ==
    /\ ps = "api"
    /\ result # "panic"
    /\ \/ /\ test.pushed = <<>>
          /\ test.setup < test.plan.setup
          /\ test' = [test EXCEPT !.setup = @ + 1, !.ret = Top(M), !.start = Pop(M).stack]
       \/ /\ test.setup = test.plan.setup
          /\ Len(test.pushed) = test.plan.goal
          /\ test.steps = test.plan.steps \/ test.steps >= 1
          /\ Len(test.popped) < test.plan.pops
          /\ test' = [test EXCEPT !.popped = Append(@, Top(M)), !.ret = Top(M)]
    /\ Becomes(Pop(M))
    /\ last' = "pop"
    /\ pre' = Before
    /\ wr' = Written(mem, Pop(M).mem)
    /\ UNCHANGED <<stdin, stdout, ps, result, code, image, mark, stored>>

\* m.push(val)
ApiPush ==
    /\ ps = "api"
    /\ test.setup = test.plan.setup
    /\ Len(test.pushed) < test.plan.goal
    /\ \E val \in (IF test.plan.fill THEN {Fill(Len(test.pushed) + 1)} ELSE test.plan.vals) :
          /\ Becomes(Push(M, val))
          /\ wr' = Written(mem, Push(M, val).mem)
          /\ Doing("pushed", Append(test.pushed, val))
    /\ last' = "push"
    /\ pre' = Before
    /\ UNCHANGED <<stdin, stdout, ps, result, code, image, mark, stored>>

\* m.step()
ApiStep ==
    /\ ps = "api"
    /\ result # "panic"
    /\ test.setup = test.plan.setup
    /\ Len(test.pushed) = test.plan.goal
    /\ test.steps < test.plan.steps
    /\ test.popped = <<>>
    /\ \E fault \in FaultsOf(Fetch(M)) : Stepped(fault)
    /\ Doing("steps", test.steps + 1)
    /\ UNCHANGED ps

InitApi ==
    /\ \E plan \in Plans :
          /\ test = [plan |-> plan, setup |-> 0, start |-> Default.stack, pushed |-> <<>>,
                     steps |-> 0, popped |-> <<>>, ret |-> -1]
          /\ mem = From(plan.line).mem
          /\ pc = From(plan.line).pc
          /\ stack = From(plan.line).stack
          /\ pre = [mem |-> Default.mem, pc |-> Default.pc, stack |-> Default.stack,
                    sin |-> TestInput, out |-> <<>>, wr |-> NoWrites,
                    res |-> "none", fault |-> "none", stored |-> NoStore]
          /\ image = plan.line
    /\ mark = 0
    /\ stored = NoStore
    /\ last = "build"
    /\ stdin = TestInput
    /\ stdout = <<>>
    /\ ps = "api"
    /\ result = "none"
    /\ code = -1
    /\ wr = NoWrites

NextApi == ApiPop \/ ApiPush \/ ApiStep

SpecApi == InitApi /\ [][NextApi]_vars

(***************************************************************************)
(* The claims                                                              *)
(***************************************************************************)
\* The opcode table of the specification.
Recognized ==
    { Ch[c] : c \in {"x", "0", "1", "2", "3", "4", "5", "6", "7", "8", "9", "a", "b", "c", "d",
                     "e", "f", ".", "i", "o", ":", "'", "\"", "@", "(", ")", "+", "-", "*",
                     "/", "%", "^", "!", "=", "<", ">", "~", "|", "&", "X", "g", "j", "l", "s"} }

\* The cell n places above the stack pointer the last operation found.
Cell(n) == (pre.stack + n) % MemSize

\* What the last step popped first and second.
Popped1 == pre.mem[Cell(1)]

Popped2 == pre.mem[Cell(2)]

MachineKept == mem = pre.mem /\ pc = pre.pc /\ stack = pre.stack

StreamsKept == stdin = pre.sin /\ stdout = pre.out

\* C1: a call of step ends in continue, halt or an I/O failure returned to the
\* caller, and in nothing else, `/` and `%` with a zero divisor included.
C1_ThreeOutcomes == last = "step" => result \in {"continue", "halt", "ioerr"}

\* C2: a step on a byte outside the opcode table does what a step on `x` does: it
\* returns halt, with no error, no output, and memory, pc and stack pointer as before.
C2_UnknownIsHalt ==
    (last = "step" /\ (code = Ch["x"] \/ code \notin Recognized))
        => (result = "halt" /\ MachineKept /\ StreamsKept)

C2_Witness ==
    /\ last = "step"
    /\ code = Ch["A"]
    /\ result = "halt"
    /\ pre.wr[pre.pc] = Ch["A"]

\* The test caller pushed a, then b, and has called step once, on opcode op.
SteppedOnce(op) ==
    /\ last = "step"
    /\ test.steps = 1
    /\ Len(test.pushed) = 2
    /\ code = Ch[op]

\* a to the power b modulo 256, by b multiplications.
RECURSIVE PowerMod(_, _)
PowerMod(a, b) == IF b = 0 THEN 1 ELSE (a * PowerMod(a, b - 1)) % 256

\* a OP b modulo 256.
Expected(op, a, b) ==
    CASE op = "+" -> (a + b) % 256
      [] op = "-" -> IF a >= b THEN a - b ELSE 256 - (b - a)
      [] op = "*" -> (a * b) % 256
      [] op = "^" -> PowerMod(a, b)

\* The wrapping operations of the arms give a OP b modulo 256 on every pair of bytes.
WrappingOnAllBytes ==
    \A a \in Byte, b \in Byte :
        /\ WrapAdd(a, b) = Expected("+", a, b)
        /\ WrapSub(a, b) = Expected("-", a, b)
        /\ WrapMul(a, b) = Expected("*", a, b)
        /\ WrapPow(a, b) = Expected("^", a, b)

\* C3: with a pushed first and b second, a step of + - * ^ pops both and pushes
\* (a OP b) mod 256, a the left operand and b the right one, 0^0 being 1; the stack
\* is one cell shorter, it holds the result on top, and the step continues.
C3_Arithmetic ==
    /\ \A op \in {"+", "-", "*", "^"} :
          SteppedOnce(op) =>
              /\ result = "continue"
              /\ stack = (pre.stack + 1) % MemSize
              /\ Top(M) = Expected(op, test.pushed[1], test.pushed[2])
    /\ WrappingOnAllBytes

C3_Witness ==
    /\ SteppedOnce("-")
    /\ test.pushed = <<2, 3>>
    /\ Top(M) = 255

\* C4: a step of / or % whose divisor (popped first) is 0 has one outcome, fixed by
\* the state it starts in: always the same failure, the panic, with both operands
\* popped, nothing pushed, and memory, pc and the streams as before.
C4_ZeroDivisorSameOutcome ==
    (last = "step" /\ code \in {Ch["/"], Ch["%"]} /\ Popped1 = 0)
        => /\ result = "panic"
           /\ mem = pre.mem
           /\ pc = pre.pc
           /\ stack = Cell(2)
           /\ StreamsKept

C4_Witness ==
    /\ last = "step"
    /\ code = Ch["/"]
    /\ Popped1 = 0
    /\ Popped2 = 250
    /\ result = "panic"

\* C5: a step of g leaves pc at the address popped; a step of j, which pops the
\* address and then the condition, leaves pc at the address when the condition is
\* not 0 and at the old pc plus 1 (mod 256) when it is 0, with both operands
\* popped; each returns continue.
C5_Jumps ==
    /\ (last = "step" /\ code = Ch["g"])
          => (pc = Popped1 /\ stack = Cell(1) /\ result = "continue")
    /\ (last = "step" /\ code = Ch["j"])
          => /\ pc = (IF Popped2 # 0 THEN Popped1 ELSE (pre.pc + 1) % MemSize)
             /\ stack = Cell(2)
             /\ result = "continue"

C5_Witness ==
    /\ last = "step"
    /\ code = Ch["j"]
    /\ Popped2 = 1
    /\ Popped1 = 250
    /\ pc = 250

\* The last step was a jump that was taken.
TakenJump == code = Ch["g"] \/ (code = Ch["j"] /\ Popped2 # 0)

\* C6: a step that returns continue and is no taken jump leaves pc at the old pc
\* plus 1 modulo 256: from 255 it goes to 0.
C6_PcAdvances ==
    (last = "step" /\ result = "continue" /\ ~TakenJump) => pc = (pre.pc + 1) % MemSize

C6_Witness ==
    /\ last = "step"
    /\ result = "continue"
    /\ code = Ch["+"]
    /\ pre.pc = MemSize - 1
    /\ pc = 0

\* The byte the line loaded at an address.
Loaded(a) == IF a < Len(image) THEN image[a + 1] ELSE 0

\* C7: the opcode a step executes is the byte memory holds at pc when the step
\* begins; where earlier operations of the run last left a byte v at that address,
\* the step decodes v.
C7_FetchesLiveMemory ==
    last = "step" =>
        /\ code = pre.mem[pre.pc]
        /\ pre.wr[pre.pc] # -1 => code = pre.wr[pre.pc]

C7_Witness ==
    /\ last = "step"
    /\ pre.pc = 3
    /\ pre.wr[pre.pc] = Ch["1"]
    /\ code = Ch["1"]
    /\ Loaded(pre.pc) = NL
    /\ mem[MemSize - 1] = 1

\* The test caller only pushes and pops.
RoundTrip == ps = "api" /\ test.plan.steps = 0

\* C8: n pushes followed by n pops, for n up to 256 and from any stack pointer,
\* return the values in reverse order and leave the stack pointer where it was.
C8_PushPopRoundTrip ==
    RoundTrip =>
        /\ \A i \in 1 .. Len(test.popped) :
              test.popped[i] = test.pushed[Len(test.pushed) + 1 - i]
        /\ Len(test.popped) = Len(test.pushed) => stack = test.start

C8_Witness ==
    /\ RoundTrip
    /\ test.start = 1
    /\ Len(test.pushed) = MemSize
    /\ Len(test.popped) = MemSize
    /\ test.popped[MemSize] = Fill(1)

\* C9: a pop at stack pointer 0xff moves it to 0 and returns memory[0]; a push at
\* stack pointer 0 writes memory[0] and moves it to 0xff; neither is an error or
\* a halt, and the stack pointer stays in 0..255.
C9_StackWraps ==
    /\ stack \in Byte
    /\ (last = "pop" /\ pre.stack = MemSize - 1)
          => (stack = 0 /\ test.ret = pre.mem[0] /\ mem = pre.mem)
    /\ (last = "push" /\ pre.stack = 0)
          => (stack = MemSize - 1 /\ mem[0] = test.pushed[Len(test.pushed)])
    /\ last \in {"push", "pop"} => (ps = "api" /\ result = pre.res /\ pc = pre.pc)

C9_Witness ==
    /\ last = "push"
    /\ pre.stack = 0
    /\ test.setup = 1
    /\ test.ret = Ch["1"]
    /\ mem[0] = MemSize - 1
    /\ stack = MemSize - 1

\* C10: after push(a), push(b) and a step of @, the stack pointer is where it was
\* before the step, no cell but the two on top has changed, and the next two pops
\* return a, then b.
C10_Swap ==
    /\ SteppedOnce("@") =>
          /\ result = "continue"
          /\ stack = pre.stack
          /\ \A a \in Byte \ {Cell(1), Cell(2)} : mem[a] = pre.mem[a]
          /\ Top(M) = test.pushed[1]
          /\ Top(Pop(M)) = test.pushed[2]
    /\ (ps = "api" /\ test.plan.line = Str(<<"@">>) /\ test.steps = 1) =>
          /\ Len(test.popped) >= 1 => test.popped[1] = test.pushed[1]
          /\ Len(test.popped) >= 2 => test.popped[2] = test.pushed[2]

C10_Witness ==
    /\ test.plan.line = Str(<<"@">>)
    /\ test.steps = 1
    /\ test.pushed = <<250, 10>>
    /\ Len(test.popped) = 3
    /\ test.popped[1] = 250
    /\ test.popped[2] = 10

\* On a fresh machine, for every byte a: push(a) and the arm of ( leave the stack
\* pointer one lower than the push left it, and a in the two top cells.
DuplicateOnAllBytes ==
    \A a \in Byte :
        LET m == Push(Default, a)
            r == ArmDup(m).m
        IN  /\ ArmDup(m).flow = "fall"
            /\ r.stack = (m.stack + MemSize - 1) % MemSize
            /\ Top(r) = a
            /\ Top(Pop(r)) = a
            /\ Pop(Pop(r)).stack = Default.stack

\* C11: after push(a) and a step of (, the step continues, the stack pointer is one
\* lower modulo 256, the cells below the two top cells are as they were, and the
\* next two pops both return a.
C11_Duplicate ==
    /\ DuplicateOnAllBytes
    /\ SteppedOnce("(") =>
          /\ result = "continue"
          /\ stack = WrapSub(pre.stack, 1)
          /\ stack = (pre.stack + MemSize - 1) % MemSize
          /\ \A a \in Byte \ {Cell(1), pre.stack} : mem[a] = pre.mem[a]
          /\ Top(M) = test.pushed[2]
          /\ Top(Pop(M)) = test.pushed[2]
          /\ Pop(Pop(M)).stack = Cell(1)
    /\ (ps = "api" /\ test.plan.line = Str(<<"(">>) /\ test.steps = 1) =>
          /\ Len(test.popped) >= 1 => test.popped[1] = test.pushed[2]
          /\ Len(test.popped) >= 2 => test.popped[2] = test.pushed[2]
          /\ Len(test.popped) >= 3 => test.popped[3] = test.pushed[1]

C11_Witness ==
    /\ test.plan.line = Str(<<"(">>)
    /\ test.steps = 1
    /\ test.pushed = <<10, 250>>
    /\ test.popped = <<250, 250, 10>>

\* The memory image of a program line: its bytes from address 0 on, zero elsewhere.
Verbatim(line) == [a \in Byte |-> IF a < Len(line) THEN line[a + 1] ELSE 0]

\* main has read a program line, with no fault of the streams.
LineRead ==
    /\ last \in {"build", "read"}
    /\ pre.fault = "none"
    /\ FirstLine(pre.sin) # <<>>
    /\ Utf8(FirstLine(pre.sin))

\* C12: for every program line read, of any length, a machine is constructed whose
\* memory holds the bytes of the line from address 0 on and 0 at every other
\* address, with pc = 0 and stack pointer = 0xff.
C12_LoadsEveryLine ==
    LineRead =>
        /\ last = "build"
        /\ ps = "run"
        /\ \A a \in Byte :
              mem[a] = (IF a < Len(FirstLine(pre.sin)) THEN FirstLine(pre.sin)[a + 1] ELSE 0)
        /\ mem = Verbatim(image)
        /\ pc = 0
        /\ stack = MemSize - 1

\* A line of 257 bytes has been read and no machine has been constructed.
C12_LongLinePanics ==
    /\ LineRead
    /\ Len(FirstLine(pre.sin)) = MemSize + 1
    /\ last = "read"
    /\ ps = "panic"

\* A decimal integer that is not negative: digits, after an optional plus sign.
Digits(s) == IF s # <<>> /\ s[1] = Ch["+"] THEN Tail(s) ELSE s

IsDecimal(s) == Digits(s) # <<>> /\ \A i \in 1 .. Len(Digits(s)) : IsDigit(Digits(s)[i])

\* The value of a sequence of digits, the last digit being the units.
RECURSIVE DigitsValue(_)
DigitsValue(d) ==
    IF d = <<>> THEN 0
    ELSE 10 * DigitsValue(SubSeq(d, 1, Len(d) - 1)) + (d[Len(d)] - Ch["0"])

DecimalValue(s) == DigitsValue(Digits(s))

\* The line the last step read, trimmed, is a decimal integer in 0..255.
ReadsByte ==
    /\ Utf8(FirstLine(pre.sin))
    /\ IsDecimal(Trim(FirstLine(pre.sin)))
    /\ DecimalValue(Trim(FirstLine(pre.sin))) < MemSize

\* C13: a step of i whose line, trimmed of whitespace, is a decimal integer n in
\* 0..255 (digits, after an optional plus sign) pushes n and continues; for any
\* other line (none at end of stream, not a number, a minus sign, above 255, not
\* text) the step returns the I/O failure a failing stream returns, which ends the
\* process as that does, and the machine is as before the step.
C13_LineInput ==
    (last = "step" /\ code = Ch["i"]) =>
        IF pre.fault = "none" /\ ReadsByte
        THEN /\ result = "continue"
             /\ mem = [pre.mem EXCEPT ![pre.stack] = DecimalValue(Trim(FirstLine(pre.sin)))]
             /\ stack = (pre.stack + MemSize - 1) % MemSize
             /\ pc = (pre.pc + 1) % MemSize
             /\ stdin = AfterLine(pre.sin)
             /\ ps = "run"
        ELSE /\ result = "ioerr"
             /\ MachineKept
             /\ ps = "exit_err"

C13_Witness ==
    /\ last = "step"
    /\ code = Ch["i"]
    /\ pre.fault = "none"
    /\ FirstLine(pre.sin) = Str(<<"2", "5", "6">>) \o <<NL>>
    /\ result = "ioerr"
    /\ stack = MemSize - 1
    /\ ps = "exit_err"

\* What main does after the step, the line read or the end it has reached, told by
\* the operation that came next: a step follows a built machine and a step that
\* continued, a line read follows a step that halted, nothing follows an I/O
\* failure.
NextInOrder ==
    /\ last = "step" => pre.res \in {"none", "continue"}
    /\ last \in {"build", "read"} => pre.res \in {"none", "halt"}
    /\ (last \in {"build", "read"} /\ pre.res = "none") => pre.out = <<>>
    /\ (last = "step" /\ pre.res = "none") => pre.out # <<>>

\* C14: for each line main reads, a machine is built from that line alone and then
\* stepped; after a step that continues the same machine is stepped again; after a
\* step that halts main reads the next line; after a step that returns an I/O
\* failure the process ends with a failure, no line read and no step called any
\* more; at the end of the program input the process ends with success.
C14_DriverLoop ==
    /\ LineRead =>
          /\ last = "build"
          /\ ps = "run"
          /\ mem = Verbatim(FirstLine(pre.sin))
          /\ pc = 0
          /\ stack = MemSize - 1
          /\ wr = NoWrites
    /\ NextInOrder
    /\ (last = "step" /\ result = "continue") => ps = "run"
    /\ (last = "step" /\ result = "halt") => ps = "top"
    /\ (last = "step" /\ result = "ioerr") => ps = "exit_err"
    /\ (last = "read" /\ pre.fault = "none" /\ pre.sin = <<>>) => ps = "exit_ok"

\* The same for the lines that fit the memory.
C14_FittingLines ==
    /\ (LineRead /\ Len(FirstLine(pre.sin)) <= MemSize) =>
          /\ last = "build"
          /\ ps = "run"
          /\ mem = Verbatim(FirstLine(pre.sin))
          /\ pc = 0
          /\ stack = MemSize - 1
          /\ wr = NoWrites
    /\ NextInOrder
    /\ (last = "step" /\ result = "continue") => ps = "run"
    /\ (last = "step" /\ result = "halt") => ps = "top"
    /\ (last = "step" /\ result = "ioerr") => ps = "exit_err"
    /\ (last = "read" /\ pre.fault = "none" /\ pre.sin = <<>>) => ps = "exit_ok"

\* The program of the machine held: the line it was built from, less its newline.
Program ==
    IF image # <<>> /\ image[Len(image)] = NL THEN SubSeq(image, 1, Len(image) - 1) ELSE image

\* What the machine held has written so far.
RunOutput == SubSeq(stdout, mark + 1, Len(stdout))

\* The documented programs and what each is documented to write.
DocumentedOutput ==
    [p \in {Str(<<"1", "o">>), Str(<<"3", "4", "+", "o">>), Str(<<"0", "!", "o">>),
            Str(<<"x">>), Str(<<"q">>)} |->
        CASE p = Str(<<"1", "o">>) -> Str(<<"1">>) \o <<NL>>
          [] p = Str(<<"3", "4", "+", "o">>) -> Str(<<"7">>) \o <<NL>>
          [] p = Str(<<"0", "!", "o">>) -> Str(<<"1">>) \o <<NL>>
          [] OTHER -> <<>>]

\* main is running, or has just run to a halt, a documented program.
DocumentedRun ==
    /\ ps \in {"run", "top", "exit_err", "panic"}
    /\ last \in {"build", "step"}
    /\ Program \in DOMAIN DocumentedOutput

\* C15: loaded by main with or without the newline and stepped while the streams
\* work, 1o writes exactly "1\n", 34+o exactly "7\n", 0!o exactly "1\n", x and q
\* nothing; every step but the last continues and moves pc one byte on, the step on
\* the byte after the program (or on x, q) halts, so the run halts within as many
\* steps as the line has bytes, plus one, with no failure.
C15_DocumentedRuns ==
    DocumentedRun =>
        /\ result = "none" => (pc = 0 /\ RunOutput = <<>>)
        /\ result = "continue" => (pc = pre.pc + 1 /\ pc <= Len(Program))
        /\ result = "halt" =>
              /\ RunOutput = DocumentedOutput[Program]
              /\ pc = (IF DocumentedOutput[Program] = <<>> THEN 0 ELSE Len(Program))
              /\ ps = "top"
        /\ result # "panic"
        /\ result = "ioerr" => pre.fault # "none"
        /\ stdin = (IF last = "build" THEN AfterLine(pre.sin) ELSE pre.sin)
        /\ \E n \in 0 .. Len(DocumentedOutput[Program]) :
              RunOutput = SubSeq(DocumentedOutput[Program], 1, n)

C15_Witness ==
    /\ DocumentedRun
    /\ result = "halt"
    /\ image = Str(<<"3", "4", "+", "o">>) \o <<NL>>
    /\ mark = 2 * Len(MainPrompt) + 2
    /\ RunOutput = Str(<<"7">>) \o <<NL>>
    /\ pc = 4

\* The positions of the bits set in a byte.
BitsOf(a) == {k \in 0 .. 7 : (a \div (2 ^ k)) % 2 = 1}

\* r is a OR b: the bits set in r are those set in a or in b.
IsOr(r, a, b) == r \in Byte /\ BitsOf(r) = BitsOf(a) \cup BitsOf(b)

\* The digits in order of value.
HexDigits ==
    <<"0", "1", "2", "3", "4", "5", "6", "7", "8", "9", "a", "b", "c", "d", "e", "f">>

\* The value of the digit opcode c.
HexValue(c) == (CHOOSE i \in 1 .. 16 : Ch[HexDigits[i]] = c) - 1

\* On a fresh machine, for all bytes hi and lo: push(hi), push(lo) and the arm of .
\* leave ((hi * 16) mod 256) OR lo on top, one cell above the first push.
CombineOnAllBytes ==
    \A hi \in Byte, lo \in Byte :
        LET r == ArmCombine(Push(Push(Default, hi), lo)).m
        IN  /\ IsOr(Top(r), (hi * 16) % 256, lo)
            /\ (lo < 16 => Top(r) = ((hi % 16) * 16 + lo))
            /\ r.stack = MemSize - 2

\* C16: a step of . pops lo, then hi, and pushes ((hi * 16) mod 256) OR lo, lo not
\* masked and the high nibble of hi dropped, for all bytes hi and lo; the program
\* 1 2 . leaves 18 on top, and two digit opcodes h, l followed by . leave 16*h + l.
C16_NibbleCombine ==
    /\ CombineOnAllBytes
    /\ (last = "step" /\ code = Ch["."]) =>
          /\ result = "continue"
          /\ stack = Cell(1)
          /\ IsOr(mem[Cell(2)], (Popped2 * 16) % 256, Popped1)
          /\ \A a \in Byte \ {Cell(2)} : mem[a] = pre.mem[a]
          /\ pc = (pre.pc + 1) % MemSize
          /\ StreamsKept
    /\ (last = "step" /\ code = Ch["."] /\ Len(image) = 3 /\ pre.pc = 2
            /\ image[1] \in HexChars /\ image[2] \in HexChars) =>
          /\ Popped1 = HexValue(image[2])
          /\ Popped2 = HexValue(image[1])
          /\ Top(M) = 16 * HexValue(image[1]) + HexValue(image[2])
    /\ (last = "step" /\ code = Ch["."] /\ pre.pc = 2
            /\ SubSeq(image, 1, 3) = Str(<<"1", "2", ".">>)) => Top(M) = 18

C16_Witness ==
    /\ last = "step"
    /\ code = Ch["."]
    /\ SubSeq(image, 1, 3) = Str(<<"1", "2", ".">>)
    /\ Len(image) = 5
    /\ Popped1 = 2
    /\ Popped2 = 1
    /\ Top(M) = 18
    /\ stack = MemSize - 2

\* For every byte c and every behaviour of the streams: the first step of the
\* program c 1 returns halt exactly when c is x or outside the opcode table, and a
\* second step then returns halt again, on the same machine.
HaltOnAllBytes ==
    \A c \in Byte :
        \A fault \in FaultsOf(c) :
            LET m == From(<<c, Ch["1"]>>)
                r == StepOf(m, TestInput, fault)
                t == StepOf(r.m, r.sin, "none")
            IN  /\ (r.res = "halt") <=> (c = Ch["x"] \/ c \notin Recognized)
                /\ r.res = "halt" => (t.res = "halt" /\ t.m = m /\ t.sin = TestInput)

\* C17: a step returns halt only on x or on a byte outside the opcode table; a step
\* that follows a step that returned halt, with nothing in between, returns halt
\* again and leaves memory, pc and stack pointer (and the streams) as they were.
C17_HaltedIsTerminal ==
    /\ HaltOnAllBytes
    /\ (last = "step" /\ result = "halt") =>
          /\ code = pre.mem[pre.pc]
          /\ code = Ch["x"] \/ code \notin Recognized
    /\ (last = "step" /\ pre.res = "halt") =>
          /\ result = "halt"
          /\ MachineKept
          /\ StreamsKept

C17_Witness ==
    /\ last = "step"
    /\ image = Str(<<"x", "1", "o">>)
    /\ test.steps = 2
    /\ pre.res = "halt"
    /\ result = "halt"
    /\ code = Ch["x"]
    /\ pc = 0

\* For every address and the operand bytes of the tests: on a machine loaded with
\* the program s, push(val), push(addr) and the arm of s leave val at addr, every
\* other cell as the pushes left it, and the stack empty again.
StoreOnAllAddresses ==
    \A addr \in Byte, val \in TestBytes :
        LET m == Push(Push(From(Str(<<"s">>)), val), addr)
            r == ArmStore(m).m
        IN  /\ r.mem[addr] = val
            /\ \A a \in Byte \ {addr} : r.mem[a] = m.mem[a]
            /\ r.stack = MemSize - 1

\* C18: a step of s that popped addr, then val, sets memory[addr] = val, whatever
\* addr holds (code, stack, anything), and changes no other cell; a later step of l
\* that pops the same addr pushes val if no step in between has changed
\* memory[addr]; a push into the cell addr in between does change it.
C18_StoreLoad ==
    /\ StoreOnAllAddresses
    /\ (last = "step" /\ code = Ch["s"]) =>
          /\ result = "continue"
          /\ mem[Popped1] = Popped2
          /\ \A a \in Byte \ {Popped1} : mem[a] = pre.mem[a]
          /\ stack = Cell(2)
          /\ pc = (pre.pc + 1) % MemSize
    /\ (last = "step" /\ code = Ch["l"]) =>
          /\ result = "continue"
          /\ stack = pre.stack
          /\ Top(M) = pre.mem[Popped1]
          /\ \A a \in Byte \ {Cell(1)} : mem[a] = pre.mem[a]
          /\ (pre.stored # NoStore /\ pre.stored.addr = Popped1) => Top(M) = pre.stored.val
    /\ (last = "step" /\ code = Ch["l"] /\ pre.pc = 4 /\ Len(image) = 7
            /\ SubSeq(image, 1, 6) = Str(<<":", ":", "s", ":", "l", "o">>)
            /\ Popped1 = MemSize - 1) =>
          /\ Top(M) = MemSize - 1
          /\ pre.stored # NoStore => pre.stored.val = MemSize - 1

C18_Witness ==
    /\ last = "step"
    /\ code = Ch["l"]
    /\ pre.pc = 4
    /\ pre.stored = [addr |-> 1, val |-> 250]
    /\ Popped1 = 1
    /\ pre.mem[1] = 250
    /\ image[2] = Ch[":"]
    /\ Top(M) = 250

\* C19: a step that returns an I/O failure is a step of i, o, :, ' or "; it leaves
\* memory and pc as they were; it leaves the stack pointer as it was for i, : and ",
\* and one higher modulo 256 (the operand popped) for o and '.
C19_FailedStep ==
    (last = "step" /\ result = "ioerr") =>
        /\ code \in {Ch["i"], Ch["o"], Ch[":"], Ch["'"], Ch["\""]}
        /\ code = pre.mem[pre.pc]
        /\ mem = pre.mem
        /\ pc = pre.pc
        /\ code \in {Ch["i"], Ch[":"], Ch["\""]} => stack = pre.stack
        /\ code \in {Ch["o"], Ch["'"]} => stack = (pre.stack + 1) % MemSize

C19_Witness ==
    /\ last = "step"
    /\ result = "ioerr"
    /\ code = Ch["'"]
    /\ image = Str(<<"4", "1", ".", "'">>)
    /\ pc = 3
    /\ pre.stack = MemSize - 2
    /\ stack = MemSize - 1
    /\ mem = pre.mem

\* The machine the last operation found.
MachineBefore == [mem |-> pre.mem, pc |-> pre.pc, stack |-> pre.stack]

\* How many digits the decimal form of a byte has.
DecimalWidth(n) == IF n < 10 THEN 1 ELSE IF n < 100 THEN 2 ELSE 3

\* How many bytes the debug view of a machine at pc p and stack pointer sp takes:
\* two lines of 7 bytes, a number and a newline, a header of 52 bytes, 16 rows of
\* 70 bytes, and 7 bytes of highlighting for each of the one or two marked cells.
DumpLength(p, sp) ==
    (8 + DecimalWidth(p)) + (8 + DecimalWidth(sp)) + 52 + 16 * 70
    + 7 * (IF p = sp THEN 1 ELSE 2)

\* C20: a successful step of the debug view leaves every memory cell and the stack
\* pointer as they were and moves pc one byte on (mod 256); it reads nothing, and
\* what it writes is the view of the memory, pc and stack pointer the step found,
\* followed by a newline.
C20_DumpReadOnly ==
    (last = "step" /\ code = Ch["\""] /\ result = "continue") =>
        /\ mem = pre.mem
        /\ stack = pre.stack
        /\ pc = (pre.pc + 1) % MemSize
        /\ stdin = pre.sin
        /\ stdout = pre.out \o Dump(MachineBefore) \o <<NL>>
        /\ Len(stdout) = Len(pre.out) + DumpLength(pre.pc, pre.stack) + 1
        /\ wr = pre.wr

C20_Witness ==
    /\ last = "step"
    /\ code = Ch["\""]
    /\ result = "continue"
    /\ test.pushed = <<250, 10>>
    /\ test.steps = 1
    /\ stack = MemSize - 3
    /\ pc = 1
    /\ Len(stdout) = DumpLength(0, MemSize - 3) + 1

====
